---- MODULE Spec2Model ----
(***************************************************************************)
(* State-machine model of src/b2b_outreach_pipeline.py: the SQLite store   *)
(* (companies, sent, unsubscribed), registry ingestion (fetch_from_brreg   *)
(* and upsert_companies), website crawling (crawl_for_email) and the       *)
(* campaign dispatcher (send_campaign).                                    *)
(*                                                                         *)
(* Text values (addresses, urls, industry codes) are sequences of          *)
(* one-character strings, so that lower(), startswith() and endswith()     *)
(* are computed as the code computes them.                                 *)
(***************************************************************************)
EXTENDS Integers, Sequences, FiniteSets, TLC

\* ------------------------------------------------------------------------
\* Bounds of the model
\* ------------------------------------------------------------------------
\* largest number of rows of the companies table in an initial store
MaxCompanies == 2
\* largest batch limit handed to send_campaign
MaxLimit == 2
\* the wall clock (seconds) is read while it is at most MaxClock
MaxClock == 1
\* longest list handed to upsert_companies by a direct call
MaxBatch == 2
\* the model follows the pagination of a region for at most MaxPage requests
MaxPage == 4
\* the fetch action is run at most MaxRuns times
MaxRuns == 2
\* most matches of EMAIL_REGEX in one page
MaxMatches == 2

\* ------------------------------------------------------------------------
\* Configuration (lines 56-63)
\* ------------------------------------------------------------------------
MAX_PAGES_PER_SITE == 3

\* ------------------------------------------------------------------------
\* Text
\* ------------------------------------------------------------------------
\* SQL NULL / Python None; no text value equals it
NULL == <<"NULL">>

LowerChar(c) ==
  CASE c = "A" -> "a"
    [] c = "B" -> "b"
    [] c = "I" -> "i"
    [] OTHER -> c

\* str.lower() (lines 228, 338, 344) and SQLite lower() (line 359)
Lower(s) == [i \in 1..Len(s) |-> LowerChar(s[i])]

\* str.startswith
StartsWith(s, p) == Len(p) <= Len(s) /\ SubSeq(s, 1, Len(p)) = p

\* str.endswith
EndsWith(s, p) == Len(p) <= Len(s) /\ SubSeq(s, Len(s) - Len(p) + 1, Len(s)) = p

\* the characters of lower-cased addresses in code-point order, for sorted() (line 231)
Ascii ==
  <<"-", ".", "@", "a", "b", "c", "d", "e", "f", "g", "h", "i", "j", "k", "l", "m",
    "n", "o", "p", "q", "r", "s", "t", "u", "v", "w", "x", "y", "z">>

Ord(c) == CHOOSE i \in DOMAIN Ascii : Ascii[i] = c

\* s < t in Python's string order
RECURSIVE StrLess(_, _)
StrLess(s, t) ==
  IF t = <<>> THEN FALSE
  ELSE IF s = <<>> THEN TRUE
  ELSE IF Head(s) = Head(t) THEN StrLess(Tail(s), Tail(t))
  ELSE Ord(Head(s)) < Ord(Head(t))

\* k in s (a substring test)
Contains(s, k) == \E i \in 1..(Len(s) - Len(k) + 1) : SubSeq(s, i, i + Len(k) - 1) = k

\* str.strip() of blanks
RECURSIVE LStrip(_)
LStrip(s) == IF s # <<>> /\ Head(s) = " " THEN LStrip(Tail(s)) ELSE s

RECURSIVE RStrip(_, _)
RStrip(s, c) ==
  IF s # <<>> /\ s[Len(s)] = c THEN RStrip(SubSeq(s, 1, Len(s) - 1), c) ELSE s

Strip(s) == RStrip(LStrip(s), " ")

\* the text before the first c (all of s when c is not in s), and the text after it
RECURSIVE Before(_, _)
Before(s, c) ==
  IF s = <<>> \/ Head(s) = c THEN <<>> ELSE <<Head(s)>> \o Before(Tail(s), c)

After(s, c) == SubSeq(s, Len(Before(s, c)) + 2, Len(s))

\* s.split(c)
RECURSIVE Split(_, _)
Split(s, c) ==
  IF Len(Before(s, c)) = Len(s) THEN <<s>>
  ELSE <<Before(s, c)>> \o Split(After(s, c), c)

\* c.join(parts)
RECURSIVE Join(_, _)
Join(parts, c) ==
  IF parts = <<>> THEN <<>>
  ELSE IF Len(parts) = 1 THEN parts[1]
  ELSE parts[1] \o <<c>> \o Join(Tail(parts), c)

\* addresses found in stores handed to send_campaign
a_x_no == <<"a", "@", "x", ".", "n", "o">>
A_x_no == <<"A", "@", "x", ".", "n", "o">>
b_y_no == <<"b", "@", "y", ".", "n", "o">>

EmailPool == {a_x_no, A_x_no, b_y_no}

\* homepages
x_no == <<"x", ".", "n", "o">>
y_no == <<"y", ".", "n", "o">>

Min(a, b) == IF a <= b THEN a ELSE b

VARIABLES
  \* the store (init_db): companies in rowid order, sent and unsubscribed keyed by email
  companies, sent, unsubscribed,
  \* time.time(), in seconds
  clock,
  \* send_campaign: program counter, batch limit, fetched rows, index of the row in work,
  \* whether the row in work had an UnsubscribedRecord when already_unsubscribed ran,
  \* and the outbound calls, ledger writes and sleeps of the run
  sPc, limit, rows, rowIdx, unsubAtCheck, sendLog,
  \* upsert_companies: the list of Company records handed to the latest call, and
  \* whether that call is still to run
  upserted, uPc,
  \* the fetch action: program counter; its arguments; the loop variables of
  \* fetch_from_brreg (region index, page, seen_page_signatures, the companies collected);
  \* the registry's answers so far; the GETs and sleeps of the run; completed runs
  fPc, municipality_numbers, nace_prefixes, max_pages,
  muniIdx, page, seen_page_signatures, comps, registry, fetchLog, runs,
  \* crawl_for_email: program counter, the website argument, base and domain, the index
  \* of the candidate path in work, the page fetched last, the fetches and sleeps of
  \* the call, and the value returned
  cPc, website, base, domain, pathIdx, html, crawlLog, result,
  \* the enrich action: program counter, the rows fetched by its query, and the index
  \* of the row in work
  ePc, todo, todoIdx

storeVars == <<companies, sent, unsubscribed>>
sendVars == <<sPc, limit, rows, rowIdx, unsubAtCheck, sendLog>>
upsertVars == <<upserted, uPc>>
fetchArgs == <<municipality_numbers, nace_prefixes, max_pages>>
fetchVars == <<fPc, fetchArgs, muniIdx, page, seen_page_signatures, comps, registry, fetchLog, runs>>
crawlVars == <<cPc, website, base, domain, pathIdx, html, crawlLog, result>>
enrichVars == <<ePc, todo, todoIdx>>
notSendVars == <<upsertVars, fetchVars, crawlVars, enrichVars>>
vars == <<storeVars, clock, sendVars, upsertVars, fetchVars, crawlVars, enrichVars>>

\* ------------------------------------------------------------------------
\* The store
\* ------------------------------------------------------------------------
\* a row of table companies (lines 94-103); orgnr is the primary key
CompanyRow(orgnr, name, municipality, nace, homepage, email, source, last_seen) ==
  [orgnr |-> orgnr, name |-> name, municipality |-> municipality, nace |-> nace,
   website |-> homepage, email |-> email, source |-> source, last_seen |-> last_seen]

\* keys of table sent / unsubscribed: TEXT PRIMARY KEY, compared byte for byte
SentKeys == DOMAIN sent

\* int(time.time()): a reading of the wall clock, never before the previous reading
Now == clock..MaxClock

\* ------------------------------------------------------------------------
\* upsert_companies
\* ------------------------------------------------------------------------
\* the Company dataclass (lines 68-76)
Company(orgnr, name, municipality, nace, homepage, email) ==
  [orgnr |-> orgnr, name |-> name, municipality |-> municipality, nace |-> nace,
   website |-> homepage, email |-> email, source |-> "brreg"]

\* a slip in the ON CONFLICT clause: the column is set to excluded.<column> as it comes
Coalesce_overwrite(new, old) == new

\* COALESCE(excluded.<column>, companies.<column>) (lines 274-275)
Coalesce(new, old) == IF new # NULL THEN new ELSE old

\* a slip in the statement: a plain INSERT into a table without the orgnr key
upsert_row_insert_only(table, c, now) ==
  Append(table, CompanyRow(c.orgnr, c.name, c.municipality, c.nace,
                           c.website, c.email, c.source, now))

\* one INSERT ... ON CONFLICT(orgnr) DO UPDATE (lines 266-280); an updated row keeps
\* its rowid, a new row goes to the end of the table
upsert_row(table, c, now) ==
  IF \E i \in DOMAIN table : table[i].orgnr = c.orgnr
    THEN [i \in DOMAIN table |->
            IF table[i].orgnr = c.orgnr
              THEN CompanyRow(c.orgnr, c.name, c.municipality, c.nace,
                              Coalesce(c.website, table[i].website),
                              Coalesce(c.email, table[i].email), c.source, now)
              ELSE table[i]]
    ELSE Append(table, CompanyRow(c.orgnr, c.name, c.municipality, c.nace,
                                  c.website, c.email, c.source, now))

\* upsert_companies: the rows of the list in order, all stamped with one clock reading
RECURSIVE upsert_companies(_, _, _)
upsert_companies(table, list, now) ==
  IF list = <<>> THEN table
  ELSE upsert_companies(upsert_row(table, Head(list), now), Tail(list), now)

\* a caller hands a list of Company records to upsert_companies
UpsertCall(list) ==
  /\ uPc = "idle"
  /\ fPc = "idle"
  /\ upserted' = list
  /\ uPc' = "run"
  /\ UNCHANGED <<storeVars, clock, sendVars, crawlVars, enrichVars, fetchVars>>

\* lines 262-281: upsert_companies runs and commits
UpsertRun(now) ==
  /\ uPc = "run"
  /\ clock' = now
  /\ companies' = upsert_companies(companies, upserted, now)
  /\ uPc' = "ran"
  /\ UNCHANGED <<sent, unsubscribed, sendVars, crawlVars, enrichVars, upserted, fetchVars>>

\* upsert_companies returns to its caller; when that is main's fetch action, the
\* action ends (line 421)
UpsertReturn ==
  /\ uPc = "ran"
  /\ uPc' = "idle"
  /\ upserted' = <<>>
  /\ fPc' = "idle"
  /\ runs' = IF fPc = "upsert" THEN runs + 1 ELSE runs
  /\ UNCHANGED <<storeVars, clock, sendVars, crawlVars, enrichVars, fetchArgs, muniIdx, page,
                 seen_page_signatures, comps, registry, fetchLog>>

\* ------------------------------------------------------------------------
\* fetch_from_brreg
\* ------------------------------------------------------------------------
\* an optional integer (max_pages, totalPages): None or Some(n)
None == <<>>
Some(n) == <<n>>

\* a record of the registry's "enheter" list; a field the record lacks is NULL
Enhet(orgnr, kode, hjemmeside) ==
  [organisasjonsnummer |-> orgnr, navn |-> "name", kommunenummer |-> "0301",
   kode |-> kode, hjemmeside |-> hjemmeside]

\* the answer to a failed request
Failure == [enheter |-> <<>>, totalPages |-> None, failed |-> TRUE]

\* the answer to a request that succeeds: data["_embedded"]["enheter"], data["page"]["totalPages"]
Page(enheter, totalPages) == [enheter |-> enheter, totalPages |-> totalPages, failed |-> FALSE]

\* records the registry serves: a restaurant with a homepage, the same unit without
\* one, a shop, a unit with no industry code and an empty homepage
E1 == Enhet(1, <<"5", "6", "1">>, x_no)
E1b == Enhet(1, <<"5", "6", "1">>, NULL)
E2 == Enhet(2, <<"4", "7">>, NULL)
E3 == Enhet(3, NULL, <<>>)

\* a page of one unit never served before: its identifier is made from the page index
FreshPage(p) == <<Enhet(100 + p, <<"5", "6">>, NULL)>>

\* the pages the registry holds, besides the fresh ones
Catalogue ==
  {Page(<<>>, None),
   Page(<<E2, E1>>, Some(2)),
   Page(<<E3, E1b>>, None)}

\* the answers the registry may give to a request for page p
Responses(p) == {Failure} \cup Catalogue \cup {Page(FreshPage(p), None)}

\* tuple(sorted(...)) of line 162, by insertion
RECURSIVE Insert(_, _)
Insert(x, sorted) ==
  IF sorted = <<>> THEN <<x>>
  ELSE IF x <= Head(sorted) THEN <<x>> \o sorted
  ELSE <<Head(sorted)>> \o Insert(x, Tail(sorted))

RECURSIVE Sorted(_)
Sorted(seq) == IF seq = <<>> THEN <<>> ELSE Insert(Head(seq), Sorted(Tail(seq)))

\* line 162: the page signature
page_sig(enheter) ==
  Sorted([i \in DOMAIN enheter |-> enheter[i].organisasjonsnummer])

\* a slip in the industry filter: a record without an industry code is dropped too
Dropped_without_code(nace, prefixes) ==
  /\ prefixes # <<>>
  /\ ~ \E i \in DOMAIN prefixes : StartsWith(nace, prefixes[i])

\* line 179: the record is skipped by the industry filter
Dropped(nace, prefixes) ==
  /\ prefixes # <<>>
  /\ nace # <<>>
  /\ ~ \E i \in DOMAIN prefixes : StartsWith(nace, prefixes[i])

\* a slip in the mapping: the identifier is read under a key the records do not have,
\* so every Company gets the default identifier
ToCompany_without_identifier(e) ==
  Company(0, e.navn, e.kommunenummer,
          IF e.kode = NULL THEN <<>> ELSE e.kode,
          IF e.hjemmeside = NULL \/ e.hjemmeside = <<>> THEN NULL ELSE e.hjemmeside,
          NULL)

\* lines 174-178, 181: a raw record as a Company; a missing or empty code is "",
\* a missing or empty homepage is None
ToCompany(e) ==
  Company(e.organisasjonsnummer, e.navn, e.kommunenummer,
          IF e.kode = NULL THEN <<>> ELSE e.kode,
          IF e.hjemmeside = NULL \/ e.hjemmeside = <<>> THEN NULL ELSE e.hjemmeside,
          NULL)

\* lines 173-181: the companies a page adds to the result, in page order
RECURSIVE PageCompanies(_, _)
PageCompanies(enheter, prefixes) ==
  IF enheter = <<>> THEN <<>>
  ELSE LET c == ToCompany(Head(enheter))
       IN (IF Dropped(c.nace, prefixes) THEN <<>> ELSE <<c>>)
            \o PageCompanies(Tail(enheter), prefixes)

\* a slip in the safeguard: the repeated page goes unnoticed
page_repeats_never(sig) == FALSE

\* line 163: this signature was already seen for this region
page_repeats(sig) == sig \in seen_page_signatures

\* line 139: the caller's page cap is reached
CapReached == max_pages # None /\ page >= max_pages[1]

\* the registry answers GET (muni, page) with r: as before when this request was
\* answered before, and otherwise with any response
Answers(key, r) ==
  IF key \in DOMAIN registry THEN r = registry[key] ELSE r \in Responses(key[2])

Remember(key, r) ==
  [k \in DOMAIN registry \cup {key} |-> IF k = key THEN r ELSE registry[k]]

GetEvent == [op |-> "get", muni |-> municipality_numbers[muniIdx], page |-> page]
SleepEvent == [op |-> "sleep", muni |-> municipality_numbers[muniIdx], page |-> page]

\* a slip in the loop: the set of signatures is created once, before the for loop
EndRegion_keeps_signatures ==
  /\ muniIdx' = muniIdx + 1
  /\ page' = 0
  /\ seen_page_signatures' = seen_page_signatures
  /\ fPc' = IF muniIdx < Len(municipality_numbers) THEN "page" ELSE "return"

\* `break`: the while loop of this region ends, the for loop goes on (line 135)
EndRegion ==
  /\ muniIdx' = muniIdx + 1
  /\ page' = 0
  /\ seen_page_signatures' = {}
  /\ fPc' = IF muniIdx < Len(municipality_numbers) THEN "page" ELSE "return"

\* lines 131-137: main calls fetch_from_brreg (line 419)
FetchStart ==
  /\ fPc = "idle"
  /\ uPc = "idle"
  /\ runs = 0
  /\ muniIdx' = 1
  /\ page' = 0
  /\ seen_page_signatures' = {}
  /\ comps' = <<>>
  /\ fetchLog' = <<>>
  /\ fPc' = IF municipality_numbers # <<>> THEN "page" ELSE "return"
  /\ UNCHANGED <<storeVars, clock, sendVars, crawlVars, enrichVars, upsertVars, fetchArgs,
                 registry, runs>>

\* the operator runs the fetch action again, with the same arguments
FetchAgain ==
  /\ fPc = "idle"
  /\ uPc = "idle"
  /\ runs >= 1
  /\ runs < MaxRuns
  /\ muniIdx' = 1
  /\ page' = 0
  /\ seen_page_signatures' = {}
  /\ comps' = <<>>
  /\ fetchLog' = <<>>
  /\ fPc' = IF municipality_numbers # <<>> THEN "page" ELSE "return"
  /\ UNCHANGED <<storeVars, clock, sendVars, crawlVars, enrichVars, upsertVars, fetchArgs,
                 registry, runs>>

\* lines 139-142: the page cap ends the region before any request
FetchCapReached ==
  /\ fPc = "page"
  /\ CapReached
  /\ EndRegion
  /\ UNCHANGED <<storeVars, clock, sendVars, crawlVars, enrichVars, upsertVars, fetchArgs,
                 comps, registry,
                 fetchLog, runs>>

\* a slip in the except clause: `return companies` in place of `break`, so a failed
\* request ends the whole run
FetchError_ends_run ==
  /\ fPc = "page"
  /\ ~ CapReached
  /\ page < MaxPage
  /\ LET key == <<municipality_numbers[muniIdx], page>>
     IN /\ Answers(key, Failure)
        /\ registry' = Remember(key, Failure)
  /\ fetchLog' = Append(fetchLog, GetEvent)
  /\ fPc' = "return"
  /\ UNCHANGED <<storeVars, clock, sendVars, crawlVars, enrichVars, upsertVars, fetchArgs,
                 comps, runs,
                 muniIdx, page, seen_page_signatures>>

\* lines 143-157: the request fails (transport error, HTTP status, unparsable body)
FetchError ==
  /\ fPc = "page"
  /\ ~ CapReached
  /\ page < MaxPage
  /\ LET key == <<municipality_numbers[muniIdx], page>>
     IN /\ Answers(key, Failure)
        /\ registry' = Remember(key, Failure)
  /\ fetchLog' = Append(fetchLog, GetEvent)
  /\ EndRegion
  /\ UNCHANGED <<storeVars, clock, sendVars, crawlVars, enrichVars, upsertVars, fetchArgs,
                 comps, runs>>

\* lines 143-195: the request is answered with a page; one pass of the while loop
FetchPage(r) ==
  /\ fPc = "page"
  /\ ~ CapReached
  /\ page < MaxPage
  /\ r # Failure
  /\ LET key == <<municipality_numbers[muniIdx], page>>
     IN /\ Answers(key, r)
        /\ registry' = Remember(key, r)
  /\ LET sig == page_sig(r.enheter)
     IN IF page_repeats(sig)
          THEN \* lines 163-165
               /\ EndRegion
               /\ fetchLog' = Append(fetchLog, GetEvent)
               /\ comps' = comps
          ELSE IF r.enheter = <<>>
          THEN \* lines 168-171
               /\ EndRegion
               /\ fetchLog' = Append(fetchLog, GetEvent)
               /\ comps' = comps
          ELSE /\ comps' = comps \o PageCompanies(r.enheter, nace_prefixes)
               /\ IF r.totalPages # None /\ page + 1 >= r.totalPages[1]
                    THEN \* lines 190-194
                         /\ EndRegion
                         /\ fetchLog' = Append(fetchLog, GetEvent)
                    ELSE \* lines 190, 195
                         /\ page' = page + 1
                         /\ seen_page_signatures' = seen_page_signatures \cup {sig}
                         /\ fetchLog' = Append(Append(fetchLog, GetEvent), SleepEvent)
                         /\ UNCHANGED <<muniIdx, fPc>>
  /\ UNCHANGED <<storeVars, clock, sendVars, crawlVars, enrichVars, upsertVars, fetchArgs,
                 runs>>

\* lines 196, 419-420: fetch_from_brreg returns, main hands the list to upsert_companies
FetchReturn ==
  /\ fPc = "return"
  /\ fPc' = "upsert"
  /\ upserted' = comps
  /\ uPc' = "run"
  /\ UNCHANGED <<storeVars, clock, sendVars, crawlVars, enrichVars, fetchArgs, muniIdx, page,
                 seen_page_signatures, comps, registry, fetchLog, runs>>

\* ------------------------------------------------------------------------
\* crawl_for_email
\* ------------------------------------------------------------------------
\* fetch (lines 215-222) returns None, "", or a page; a page is held as its matches
\* of EMAIL_REGEX, as written in the page
NoPage == [kind |-> "None", matches |-> {}]
EmptyBody == [kind |-> "empty", matches |-> {}]
Body(matches) == [kind |-> "page", matches |-> matches]

\* lines 203-212
normalize_url(url) ==
  IF url = NULL \/ url = <<>> THEN NULL
  ELSE LET u == Strip(url)
       IN IF u = <<>> THEN NULL
          ELSE RStrip(IF StartsWith(u, <<"h", "t", "t", "p">>) THEN u
                      ELSE <<"h", "t", "t", "p", ":", "/", "/">> \o u, "/")

\* the host of a url: what follows "://", up to the first "/"
HostOf(url) ==
  LET rest == IF Contains(url, <<":", "/", "/">>)
                THEN SubSeq(url, Len(Before(url, ":")) + 4, Len(url))
                ELSE url
  IN Before(rest, "/")

\* the public suffixes known to tldextract
PublicSuffixes == {<<"n", "o">>, <<"c", "o", "m">>}

\* lines 242-243: tldextract.extract(base), then domain and suffix joined by "."
registrable_domain(url) ==
  LET labels == Split(HostOf(url), ".")
      n == Len(labels)
      has_suffix == labels[n] \in PublicSuffixes
      dom == IF has_suffix THEN (IF n >= 2 THEN labels[n - 1] ELSE <<>>) ELSE labels[n]
      suffix == IF has_suffix THEN labels[n] ELSE <<>>
  IN Join(SelectSeq(<<dom, suffix>>, LAMBDA part : part # <<>>), ".")

\* line 230: the free-mail domains that are discarded
FreeMail ==
  {<<"@", "g", "m", "a", "i", "l", ".", "c", "o", "m">>,
   <<"@", "o", "u", "t", "l", "o", "o", "k", ".", "c", "o", "m">>,
   <<"@", "h", "o", "t", "m", "a", "i", "l", ".", "c", "o", "m">>,
   <<"@", "l", "i", "v", "e", ".", "c", "o", "m">>}

\* a set of texts as a list in Python's string order
RECURSIVE SortedTexts(_)
SortedTexts(set) ==
  IF set = {} THEN <<>>
  ELSE LET least == CHOOSE x \in set : \A y \in set : y = x \/ StrLess(x, y)
       IN <<least>> \o SortedTexts(set \ {least})

\* lines 225-231: the matches of EMAIL_REGEX in the page, lower-cased, free-mail
\* addresses removed, sorted
extract_emails_from_html(h) ==
  IF h = NoPage \/ h = EmptyBody THEN <<>>
  ELSE SortedTexts({e \in {Lower(m) : m \in h.matches} :
                      ~ \E x \in FreeMail : EndsWith(e, x)})

\* e.split("@")[-1]
DomainPart(e) == LET parts == Split(e, "@") IN parts[Len(parts)]

\* line 249: the address is taken to belong to the site
Qualifies(e, dom) == EndsWith(e, <<"@">> \o dom) \/ EndsWith(DomainPart(e), dom)

\* line 252: the generic contact aliases
PreferredAliases ==
  {<<"k", "o", "n", "t", "a", "k", "t", "@">>,
   <<"p", "o", "s", "t", "@">>,
   <<"i", "n", "f", "o", "@">>,
   <<"b", "o", "o", "k", "i", "n", "g", "@">>,
   <<"b", "e", "s", "t", "i", "l", "l", "i", "n", "g", "@">>}

\* line 252: the sort key, (not preferred, length)
NotPreferred(e) == ~ \E k \in PreferredAliases : Contains(e, k)

KeyLess(e, f) ==
  \/ (~ NotPreferred(e)) /\ NotPreferred(f)
  \/ NotPreferred(e) = NotPreferred(f) /\ Len(e) < Len(f)

\* lines 252-253: sorted(emails, key=...)[0]; the sort is stable, so the first of the
\* addresses with the least key
Best(emails) ==
  emails[CHOOSE i \in DOMAIN emails :
           /\ \A j \in DOMAIN emails : ~ KeyLess(emails[j], emails[i])
           /\ \A j \in DOMAIN emails : j < i => KeyLess(emails[i], emails[j])]

\* lines 234-235 and 245: the candidate paths that are visited
candidate_contact_paths == <<"/", "/kontakt", "/om-oss", "/contact", "/about", "/kontakt-oss">>

VisitedPaths == SubSeq(candidate_contact_paths, 1, Min(MAX_PAGES_PER_SITE, Len(candidate_contact_paths)))

\* a slip in the loop: `return None` in place of `continue`, so the first page without
\* a qualifying address ends the crawl
NextPath_gives_up ==
  /\ pathIdx' = pathIdx + 1
  /\ cPc' = "done"
  /\ result' = NULL

\* the for loop goes to the next path, or is exhausted and None is returned (line 255)
NextPath ==
  /\ pathIdx' = pathIdx + 1
  /\ cPc' = IF pathIdx < Len(VisitedPaths) THEN "visit" ELSE "done"
  /\ result' = NULL

\* lines 238-243: crawl_for_email is called
CrawlStart(w) ==
  /\ cPc = "idle"
  /\ ePc = "idle" \/ (ePc = "row" /\ w = todo[todoIdx].website /\ w # NULL /\ w # <<>>)
  /\ ePc' = IF ePc = "row" THEN "crawl" ELSE ePc
  /\ website' = w
  /\ base' = normalize_url(w)
  /\ domain' = IF base' = NULL THEN <<>> ELSE registrable_domain(base')
  /\ pathIdx' = 1
  /\ html' = NoPage
  /\ crawlLog' = <<>>
  /\ result' = NULL
  /\ cPc' = IF base' = NULL THEN "done" ELSE "visit"
  /\ UNCHANGED <<storeVars, clock, sendVars, upsertVars, fetchVars, todo, todoIdx>>

\* lines 246-254: one pass of the for loop; fetch returns None (an error, a status of
\* 400 or more), an empty body or a page
CrawlVisit(h) ==
  /\ cPc = "visit"
  /\ html' = h
  /\ LET emails == SelectSeq(extract_emails_from_html(h), LAMBDA e : Qualifies(e, domain))
         fetched == Append(crawlLog, [op |-> "fetch", path |-> VisitedPaths[pathIdx],
                                      html |-> h])
     IN IF h = NoPage \/ h = EmptyBody
          THEN \* lines 247-248
               /\ crawlLog' = fetched
               /\ NextPath
          ELSE IF emails # <<>>
          THEN \* lines 250-253
               /\ crawlLog' = fetched
               /\ result' = Best(emails)
               /\ cPc' = "done"
               /\ pathIdx' = pathIdx
          ELSE \* line 254
               /\ crawlLog' = Append(fetched, [op |-> "sleep", path |-> VisitedPaths[pathIdx],
                                               html |-> NoPage])
               /\ NextPath
  /\ UNCHANGED <<storeVars, clock, sendVars, upsertVars, fetchVars, enrichVars, website, base,
                 domain>>

\* crawl_for_email returns to its caller; the enrich action goes on at line 438
CrawlReturn ==
  /\ cPc = "done"
  /\ cPc' = "idle"
  /\ ePc' = IF ePc = "crawl" THEN "write" ELSE ePc
  /\ UNCHANGED <<storeVars, clock, sendVars, upsertVars, fetchVars, website, base, domain,
                 pathIdx, html, crawlLog, result, todo, todoIdx>>

\* ------------------------------------------------------------------------
\* The enrich action (main, lines 430-446)
\* ------------------------------------------------------------------------
\* a slip in the query: the WHERE clause is left out
EnrichTodo_all_rows ==
  [i \in DOMAIN companies |-> [orgnr |-> companies[i].orgnr, website |-> companies[i].website]]

\* line 433: SELECT orgnr, website FROM companies WHERE email IS NULL
EnrichTodo ==
  LET lacking == SelectSeq(companies, LAMBDA c : c.email = NULL)
  IN [i \in DOMAIN lacking |-> [orgnr |-> lacking[i].orgnr, website |-> lacking[i].website]]

\* the next row of the for loop of line 436, or the end of the action
NextTodo(i) == IF i < Len(todo) THEN "row" ELSE "done"

\* lines 432-435: the action starts, the rows without address are fetched
EnrichStart ==
  /\ ePc = "idle"
  /\ cPc = "idle"
  /\ sPc = "idle"
  /\ fPc = "idle"
  /\ uPc = "idle"
  /\ todo' = EnrichTodo
  /\ todoIdx' = 1
  /\ ePc' = IF todo' # <<>> THEN "row" ELSE "done"
  /\ UNCHANGED <<storeVars, clock, sendVars, upsertVars, fetchVars, crawlVars>>

\* lines 437-438: a row without website is passed over
EnrichSkip ==
  /\ ePc = "row"
  /\ todo[todoIdx].website = NULL \/ todo[todoIdx].website = <<>>
  /\ ePc' = NextTodo(todoIdx)
  /\ todoIdx' = todoIdx + 1
  /\ UNCHANGED <<storeVars, clock, sendVars, upsertVars, fetchVars, crawlVars, todo>>

\* lines 440-445: UPDATE companies SET email=? WHERE orgnr=? when an address was found
\* (followed by a commit and a sleep), then the next row
EnrichWrite ==
  /\ ePc = "write"
  /\ companies' =
       IF result = NULL THEN companies
       ELSE [i \in DOMAIN companies |->
               IF companies[i].orgnr = todo[todoIdx].orgnr
                 THEN [companies[i] EXCEPT !.email = result]
                 ELSE companies[i]]
  /\ ePc' = NextTodo(todoIdx)
  /\ todoIdx' = todoIdx + 1
  /\ UNCHANGED <<sent, unsubscribed, clock, sendVars, upsertVars, fetchVars, crawlVars, todo>>

\* line 446: the action ends
EnrichReturn ==
  /\ ePc = "done"
  /\ ePc' = "idle"
  /\ UNCHANGED <<storeVars, clock, sendVars, upsertVars, fetchVars, crawlVars, todo, todoIdx>>

\* the parts of the program that a specification leaves out stay at rest
UpsertIdle == upserted = <<>> /\ uPc = "idle"

FetchIdle ==
  /\ fPc = "idle"
  /\ municipality_numbers = <<>>
  /\ nace_prefixes = <<>>
  /\ max_pages = <<>>
  /\ muniIdx = 1
  /\ page = 0
  /\ seen_page_signatures = {}
  /\ comps = <<>>
  /\ registry = <<>>
  /\ fetchLog = <<>>
  /\ runs = 0

CrawlIdle ==
  /\ cPc = "idle"
  /\ website = NULL
  /\ base = NULL
  /\ domain = <<>>
  /\ pathIdx = 1
  /\ html = NoPage
  /\ crawlLog = <<>>
  /\ result = NULL
  /\ ePc = "idle"
  /\ todo = <<>>
  /\ todoIdx = 1

SendIdle ==
  /\ sPc = "idle"
  /\ limit = 0
  /\ rows = <<>>
  /\ rowIdx = 1
  /\ unsubAtCheck = FALSE
  /\ sendLog = <<>>

\* ------------------------------------------------------------------------
\* send_campaign
\* ------------------------------------------------------------------------
\* a slip in the candidate query: the join compares the addresses byte for byte
IsCandidate_exact_join(c) ==
  /\ c.email # NULL
  /\ ~ \E k \in DOMAIN sent : c.email = k

\* the candidate query: companies c LEFT JOIN sent s ON lower(c.email) = lower(s.email)
\* WHERE c.email IS NOT NULL AND s.email IS NULL
IsCandidate(c) ==
  /\ c.email # NULL
  /\ ~ \E k \in SentKeys : Lower(c.email) = Lower(k)

\* a slip in the candidate query: the LIMIT clause is left out
SelectCandidates_without_limit(lim) ==
  LET matching == SelectSeq(companies, IsCandidate)
  IN [i \in 1..Len(matching) |-> [orgnr |-> matching[i].orgnr, name |-> matching[i].name,
                                  municipality |-> matching[i].municipality,
                                  website |-> matching[i].website, email |-> matching[i].email]]

\* ... LIMIT ?, the table scanned in rowid order; the five selected columns
SelectCandidates(lim) ==
  LET matching == SelectSeq(companies, IsCandidate)
      n == Min(lim, Len(matching))
  IN [i \in 1..n |-> [orgnr |-> matching[i].orgnr, name |-> matching[i].name,
                      municipality |-> matching[i].municipality,
                      website |-> matching[i].website, email |-> matching[i].email]]

\* a slip in already_unsubscribed: the address is looked up as written, not case-folded
already_unsubscribed_as_written(email) == email \in unsubscribed

\* already_unsubscribed: SELECT 1 FROM unsubscribed WHERE email = email.lower()
already_unsubscribed(email) == Lower(email) \in unsubscribed

\* mark_sent: INSERT OR REPLACE INTO sent (email, company_orgnr, sent_at)
mark_sent(email, orgnr, now) ==
  LET key == Lower(email)
  IN [k \in SentKeys \cup {key} |->
        IF k = key THEN [company_orgnr |-> orgnr, sent_at |-> now] ELSE sent[k]]

\* the next row of the for loop, or the end of the run
NextRow(i) == IF i < Len(rows) THEN "check" ELSE "done"

\* lines 353-365: the run starts, the candidate rows are fetched
SendSelect(lim) ==
  /\ sPc = "idle"
  /\ limit' = lim
  /\ rows' = SelectCandidates(lim)
  /\ rowIdx' = 1
  /\ sPc' = IF Len(rows') >= 1 THEN "check" ELSE "done"
  /\ unsubAtCheck' = FALSE
  /\ sendLog' = <<>>
  /\ UNCHANGED <<storeVars, clock, notSendVars>>

\* lines 367-369: the unsubscribe re-check; an unsubscribed row is skipped by `continue`
SendCheck ==
  /\ sPc = "check"
  /\ unsubAtCheck' = (Lower(rows[rowIdx].email) \in unsubscribed)
  /\ IF already_unsubscribed(rows[rowIdx].email)
       THEN /\ sPc' = NextRow(rowIdx)
            /\ rowIdx' = rowIdx + 1
       ELSE /\ sPc' = "deliver"
            /\ rowIdx' = rowIdx
  /\ UNCHANGED <<storeVars, clock, limit, rows, sendLog, notSendVars>>

\* lines 370-378, 381-382: the delivery call; send_via_sendgrid returns (status < 300)
\* or raises (status >= 300 or a transport error), which the except clause absorbs
SendDeliver(ok) ==
  /\ sPc = "deliver"
  /\ sendLog' = Append(sendLog, [op |-> "send", to |-> rows[rowIdx].email, row |-> rowIdx,
                                 ok |-> ok, unsub |-> unsubAtCheck])
  /\ sPc' = IF ok THEN "mark" ELSE "sleep"
  /\ UNCHANGED <<storeVars, clock, limit, rows, rowIdx, unsubAtCheck, notSendVars>>

\* line 379: the ledger write after a successful delivery
SendMark(now) ==
  /\ sPc = "mark"
  /\ clock' = now
  /\ sent' = mark_sent(rows[rowIdx].email, rows[rowIdx].orgnr, now)
  /\ sendLog' = Append(sendLog, [op |-> "mark_sent", to |-> Lower(rows[rowIdx].email),
                                 row |-> rowIdx, ok |-> TRUE, unsub |-> unsubAtCheck])
  /\ sPc' = "sleep"
  /\ UNCHANGED <<companies, unsubscribed, limit, rows, rowIdx, unsubAtCheck, notSendVars>>

\* line 383: the pacing sleep, then the next row
SendSleep ==
  /\ sPc = "sleep"
  /\ sendLog' = Append(sendLog, [op |-> "sleep", to |-> NULL, row |-> rowIdx,
                                 ok |-> TRUE, unsub |-> FALSE])
  /\ sPc' = NextRow(rowIdx)
  /\ rowIdx' = rowIdx + 1
  /\ UNCHANGED <<storeVars, clock, limit, rows, unsubAtCheck, notSendVars>>

\* the run returns; the next invocation of the send action may start
SendReturn ==
  /\ sPc = "done"
  /\ sPc' = "idle"
  /\ UNCHANGED <<storeVars, clock, limit, rows, rowIdx, unsubAtCheck, sendLog, notSendVars>>

\* the operator terminates a run of the send action (the process is killed between two
\* statements, the store keeps what was committed) and starts the action again; the
\* log goes on
SendInterrupt(lim) ==
  /\ sPc \notin {"idle", "done"}
  /\ \A i \in DOMAIN sendLog : sendLog[i].op # "terminated"
  /\ limit' = lim
  /\ rows' = SelectCandidates(lim)
  /\ rowIdx' = 1
  /\ sPc' = IF Len(rows') >= 1 THEN "check" ELSE "done"
  /\ unsubAtCheck' = FALSE
  /\ sendLog' = Append(sendLog, [op |-> "terminated", to |-> NULL, row |-> rowIdx,
                                 ok |-> TRUE, unsub |-> FALSE])
  /\ UNCHANGED <<storeVars, clock, notSendVars>>

\* the send action is run again with the batch limit of the runs before
SendRepeat(lim) ==
  /\ limit = 0 \/ limit = lim
  /\ SendSelect(lim)

\* a recipient opts out: the unsubscribe endpoint records the case-folded address
Unsubscribe(email) ==
  /\ Lower(email) \notin unsubscribed
  /\ unsubscribed' = unsubscribed \cup {Lower(email)}
  /\ UNCHANGED <<companies, sent, clock, sendVars, notSendVars>>

\* ------------------------------------------------------------------------
\* Stores handed to the send action
\* ------------------------------------------------------------------------
SendStoreRow(i, email) == CompanyRow(i, "name", "0301", <<"5", "6">>, NULL, email, "brreg", 0)

SendStores ==
  UNION {[1..n -> EmailPool \cup {NULL}] : n \in 0..MaxCompanies}

SentTables ==
  {[k \in K |-> [company_orgnr |-> 1, sent_at |-> 0]] : K \in SUBSET EmailPool}

InitSend ==
  /\ \E es \in SendStores : companies = [i \in DOMAIN es |-> SendStoreRow(i, es[i])]
  /\ sent \in SentTables
  /\ unsubscribed \in SUBSET {Lower(e) : e \in EmailPool}
  /\ clock = 0
  /\ SendIdle
  /\ UpsertIdle
  /\ FetchIdle
  /\ CrawlIdle

NextSend ==
  \/ \E lim \in 1..MaxLimit : SendSelect(lim)
  \/ SendCheck
  \/ \E ok \in BOOLEAN : SendDeliver(ok)
  \/ \E now \in Now : SendMark(now)
  \/ SendSleep
  \/ SendReturn
  \/ \E e \in EmailPool : Unsubscribe(e)

SpecSend == InitSend /\ [][NextSend]_vars

\* ------------------------------------------------------------------------
\* upsert_companies on arbitrary lists, from the empty store
\* ------------------------------------------------------------------------
\* the Company records handed to upsert_companies
UpsertRecords ==
  {Company(1, "name", "0301", <<"5", "6">>, f[1], f[2]) :
     f \in {<<NULL, NULL>>, <<x_no, NULL>>, <<y_no, NULL>>, <<NULL, a_x_no>>,
            <<NULL, b_y_no>>, <<x_no, a_x_no>>}}
  \cup {Company(2, "name", "0301", <<"5", "6">>, NULL, NULL)}

UpsertLists == UNION {[1..n -> UpsertRecords] : n \in 1..MaxBatch}

InitUpsert ==
  /\ companies = <<>>
  /\ sent = <<>>
  /\ unsubscribed = {}
  /\ clock = 0
  /\ SendIdle
  /\ UpsertIdle
  /\ FetchIdle
  /\ CrawlIdle

NextUpsert ==
  \/ \E list \in UpsertLists : UpsertCall(list)
  \/ \E now \in Now : UpsertRun(now)
  \/ UpsertReturn

SpecUpsert == InitUpsert /\ [][NextUpsert]_vars

\* ------------------------------------------------------------------------
\* The fetch action: fetch_from_brreg, then upsert_companies
\* ------------------------------------------------------------------------
\* the --municipalities, --nace and --max-pages arguments
MunicipalityLists == {<<"0301">>, <<"0301", "4601">>}
NacePrefixLists == {<<>>, << <<"5", "6">> >>}
PageCaps == {None, Some(1), Some(2)}

\* the table found by the fetch action: company 1 known under another name, with
\* another homepage and an address from an earlier enrichment
FetchStores ==
  {<<CompanyRow(1, "old name", "0301", <<"5", "6">>, y_no, a_x_no, "brreg", 0)>>}

InitFetch ==
  /\ companies \in FetchStores
  /\ sent = <<>>
  /\ unsubscribed = {}
  /\ clock = 0
  /\ SendIdle
  /\ UpsertIdle
  /\ CrawlIdle
  /\ fPc = "idle"
  /\ municipality_numbers \in MunicipalityLists
  /\ nace_prefixes \in NacePrefixLists
  /\ max_pages \in PageCaps
  /\ muniIdx = 1
  /\ page = 0
  /\ seen_page_signatures = {}
  /\ comps = <<>>
  /\ registry = <<>>
  /\ fetchLog = <<>>
  /\ runs = 0

NextFetch ==
  \/ FetchStart
  \/ FetchCapReached
  \/ FetchError
  \/ \E r \in Responses(page) : FetchPage(r)
  \/ FetchReturn
  \/ \E now \in Now : UpsertRun(now)
  \/ UpsertReturn

SpecFetch == InitFetch /\ [][NextFetch]_vars

\* the fetch action run repeatedly for one region against the same registry
InitRefetch ==
  /\ InitFetch
  /\ municipality_numbers = <<"0301">>

NextRefetch ==
  \/ NextFetch
  \/ FetchAgain

SpecRefetch == InitRefetch /\ [][NextRefetch]_vars

\* ------------------------------------------------------------------------
\* crawl_for_email on the pages of a site
\* ------------------------------------------------------------------------
\* addresses written in the pages of a site
Info_x_no == <<"I", "n", "f", "o", "@", "x", ".", "n", "o">>
sales_x_no == <<"s", "a", "l", "e", "s", "@", "x", ".", "n", "o">>
kontakt_x_no == <<"k", "o", "n", "t", "a", "k", "t", "@", "x", ".", "n", "o">>
xpost_x_no == <<"x", "p", "o", "s", "t", "@", "x", ".", "n", "o">>
post_mail_x_no == <<"p", "o", "s", "t", "@", "m", "a", "i", "l", ".", "x", ".", "n", "o">>
info_ax_no == <<"i", "n", "f", "o", "@", "a", "x", ".", "n", "o">>
ads_adnet_com == <<"a", "d", "s", "@", "a", "d", "n", "e", "t", ".", "c", "o", "m">>
a_gmail_com == <<"a", "@", "g", "m", "a", "i", "l", ".", "c", "o", "m">>

PageAddresses ==
  {Info_x_no, sales_x_no, kontakt_x_no, xpost_x_no, post_mail_x_no, info_ax_no, ads_adnet_com, a_gmail_com}

\* the website column of a company
www_x_no_slash == <<"w", "w", "w", ".", "x", ".", "n", "o", "/">>
https_x_no == <<"h", "t", "t", "p", "s", ":", "/", "/", "x", ".", "n", "o">>
blank == <<" ", " ">>

Websites == {<<>>, blank, x_no, www_x_no_slash, https_x_no}

\* what fetch may return for a url
Htmls ==
  {NoPage, EmptyBody}
  \cup {Body(m) : m \in {x \in SUBSET PageAddresses : Cardinality(x) <= MaxMatches}}

InitCrawl ==
  /\ companies = <<>>
  /\ sent = <<>>
  /\ unsubscribed = {}
  /\ clock = 0
  /\ SendIdle
  /\ UpsertIdle
  /\ FetchIdle
  /\ CrawlIdle

NextCrawl ==
  \/ \E w \in Websites : CrawlStart(w)
  \/ \E h \in Htmls : CrawlVisit(h)
  \/ CrawlReturn

SpecCrawl == InitCrawl /\ [][NextCrawl]_vars

\* ------------------------------------------------------------------------
\* The fetch, enrich and send actions, run one after another in any order
\* ------------------------------------------------------------------------
\* no action of main is running
AtRest == sPc = "idle" /\ ePc = "idle" /\ cPc = "idle" /\ fPc = "idle" /\ uPc = "idle"

\* the table found by the first action: a company with an address, one without address
\* but with a website, one with neither
PipelineStore ==
  <<CompanyRow(1, "old name", "0301", <<"5", "6">>, y_no, a_x_no, "brreg", 0),
    CompanyRow(4, "name", "0301", <<"5", "6">>, x_no, NULL, "brreg", 0),
    CompanyRow(5, "name", "0301", <<"5", "6">>, NULL, NULL, "brreg", 0)>>

\* what fetch may return for a url during enrichment
PipelineHtmls == {NoPage, Body({Info_x_no}), Body({b_y_no})}

InitPipeline ==
  /\ companies = PipelineStore
  /\ sent = <<>>
  /\ unsubscribed = {}
  /\ clock = 0
  /\ SendIdle
  /\ UpsertIdle
  /\ CrawlIdle
  /\ fPc = "idle"
  /\ municipality_numbers = <<"0301">>
  /\ nace_prefixes = <<>>
  /\ max_pages = Some(1)
  /\ muniIdx = 1
  /\ page = 0
  /\ seen_page_signatures = {}
  /\ comps = <<>>
  /\ registry = <<>>
  /\ fetchLog = <<>>
  /\ runs = 0

\* main is started with action fetch, for the first time and again
PipelineFetch == AtRest /\ FetchStart

PipelineFetchAgain == AtRest /\ FetchAgain

\* line 439: the enrich action calls crawl_for_email with the website of the row
PipelineCrawl == ePc = "row" /\ CrawlStart(todo[todoIdx].website)

\* main is started with action send
PipelineSend(lim) == AtRest /\ SendSelect(lim)

NextPipeline ==
  \/ PipelineFetch
  \/ PipelineFetchAgain
  \/ FetchCapReached
  \/ FetchError
  \/ \E r \in Responses(page) : FetchPage(r)
  \/ FetchReturn
  \/ \E now \in Now : UpsertRun(now)
  \/ UpsertReturn
  \/ EnrichStart
  \/ EnrichSkip
  \/ PipelineCrawl
  \/ \E h \in PipelineHtmls : CrawlVisit(h)
  \/ CrawlReturn
  \/ EnrichWrite
  \/ EnrichReturn
  \/ \E lim \in 1..MaxLimit : PipelineSend(lim)
  \/ SendCheck
  \/ \E ok \in BOOLEAN : SendDeliver(ok)
  \/ \E now \in Now : SendMark(now)
  \/ SendSleep
  \/ SendReturn

SpecPipeline == InitPipeline /\ [][NextPipeline]_vars

\* ------------------------------------------------------------------------
\* The send action run again and again, every delivery call succeeding
\* ------------------------------------------------------------------------
NextResend ==
  \/ \E lim \in 1..MaxLimit : SendRepeat(lim)
  \/ SendCheck
  \/ SendDeliver(TRUE)
  \/ \E now \in Now : SendMark(now)
  \/ SendSleep
  \/ SendReturn

\* the operator keeps running the action, and a run that has started goes on
SpecResend == InitSend /\ [][NextResend]_vars /\ WF_vars(NextResend)

\* ------------------------------------------------------------------------
\* A run of the send action terminated by the operator, then a second run
\* ------------------------------------------------------------------------
NextInterrupted ==
  \/ \E lim \in 1..MaxLimit : SendSelect(lim)
  \/ SendCheck
  \/ \E ok \in BOOLEAN : SendDeliver(ok)
  \/ \E now \in Now : SendMark(now)
  \/ SendSleep
  \/ SendReturn
  \/ \E lim \in 1..MaxLimit : SendInterrupt(lim)

SpecInterrupted == InitSend /\ [][NextInterrupted]_vars

\* ------------------------------------------------------------------------
\* Properties of send_campaign
\* ------------------------------------------------------------------------
SendEntries == {i \in DOMAIN sendLog : sendLog[i].op = "send"}

\* C1: no delivery call of a run goes to an address that had an UnsubscribedRecord
\* (keyed by the case-folded address) when its candidate row was processed, whether or
\* not the selection returned the row and whenever the opt-out was recorded.
C1_NoDeliveryToUnsubscribed ==
  \A i \in SendEntries : ~ sendLog[i].unsub

\* C1 witness: a finished run that delivered to one row and skipped another row whose
\* address, written in upper case in the companies table, has an UnsubscribedRecord.
C1_Witness ==
  /\ sPc = "done"
  /\ SendEntries # {}
  /\ \E j \in DOMAIN rows :
       /\ rows[j].email # Lower(rows[j].email)
       /\ Lower(rows[j].email) \in unsubscribed
       /\ \A i \in DOMAIN sendLog : sendLog[i].row # j

\* C2 (as stated): within one run no two delivery calls go to the same case-folded address.
C2_AtMostOneDeliveryPerAddress ==
  \A i, j \in SendEntries :
    Lower(sendLog[i].to) = Lower(sendLog[j].to) => i = j

\* a company is sendable: email known, no SentRecord and no UnsubscribedRecord for it
Sendable(email) ==
  /\ email # NULL
  /\ ~ \E k \in DOMAIN sent : Lower(k) = Lower(email)
  /\ Lower(email) \notin unsubscribed

\* C6 (as stated): every row of the candidate set read by send_campaign is sendable
\* at the moment the query runs.
C6_CandidatesAreSendable ==
  [][(sPc = "idle" /\ sPc' # "idle") =>
       \A i \in DOMAIN rows' : Sendable(rows'[i].email)]_vars

\* C7: the candidate selection of a run holds no company whose address, compared
\* case-insensitively, has a SentRecord when the run starts, and no step removes a
\* SentRecord, so a recorded address is not selected by any later run.
C7_SentNeverSelected ==
  [][/\ (sPc = "idle" /\ sPc' # "idle") =>
          \A i \in DOMAIN rows' :
            ~ \E k \in DOMAIN sent : Lower(k) = Lower(rows'[i].email)
     /\ DOMAIN sent \subseteq DOMAIN sent']_vars

\* C7 witness: a run has just selected its candidates, and a company whose SentRecord
\* was written by an earlier run (at clock 1) is in the table but not among them.
C7_Witness ==
  /\ sPc = "check"
  /\ sendLog = <<>>
  /\ \E c \in DOMAIN companies :
       /\ companies[c].email # NULL
       /\ Lower(companies[c].email) \in DOMAIN sent
       /\ sent[Lower(companies[c].email)].sent_at = 1
       /\ \A i \in DOMAIN rows : rows[i].orgnr # companies[c].orgnr

\* C10 (as stated): after a failed delivery call of a run, no SentRecord is written for
\* that address in the run, no further delivery call goes to that address in the run,
\* and the run ends only after every row of the batch has been processed.
C10_FailedDeliveryLeftAlone ==
  /\ \A i \in SendEntries :
       ~ sendLog[i].ok =>
         \A j \in DOMAIN sendLog :
           j > i => ~ (/\ sendLog[j].op \in {"send", "mark_sent"}
                       /\ Lower(sendLog[j].to) = Lower(sendLog[i].to))
  /\ sPc = "done" => rowIdx = Len(rows) + 1

\* ------------------------------------------------------------------------
\* Properties of upsert_companies
\* ------------------------------------------------------------------------
\* the values of one column that a list supplies for orgnr o, in list order
RECURSIVE Supplied(_, _, _)
Supplied(list, o, col) ==
  IF list = <<>> THEN <<>>
  ELSE IF Head(list).orgnr = o
         THEN <<Head(list)[col]>> \o Supplied(Tail(list), o, col)
         ELSE Supplied(Tail(list), o, col)

\* the last non-null value among vals, or old when all are null
LastNonNull(vals, old) ==
  LET nn == {i \in DOMAIN vals : vals[i] # NULL}
  IN IF nn = {} THEN old ELSE vals[CHOOSE i \in nn : \A j \in nn : j <= i]

StoredRow(table, o) == table[CHOOSE i \in DOMAIN table : table[i].orgnr = o]

\* C3: a run of upsert_companies leaves a stored website (respectively email) of an
\* orgnr as it was when every record of the list for that orgnr has a null website
\* (email), and otherwise sets it to the last non-null website (email) supplied.
C3_NullNeverOverwrites ==
  [][(uPc = "run" /\ uPc' = "ran") =>
       \A i \in DOMAIN companies :
         LET o == companies[i].orgnr
         IN (\E k \in DOMAIN upserted : upserted[k].orgnr = o) =>
              /\ StoredRow(companies', o).website =
                   LastNonNull(Supplied(upserted, o, "website"), companies[i].website)
              /\ StoredRow(companies', o).email =
                   LastNonNull(Supplied(upserted, o, "email"), companies[i].email)]_vars

\* C3 witness: upsert_companies has run on a list holding a record with a null website
\* and a non-null email for a company whose row still has a website, and whose email
\* is now the one supplied, stamped at clock 1.
C3_Witness ==
  /\ uPc = "ran"
  /\ Len(upserted) = 1
  /\ upserted[1].website = NULL
  /\ upserted[1].email = b_y_no
  /\ \E i \in DOMAIN companies :
       /\ companies[i].orgnr = upserted[1].orgnr
       /\ companies[i].website = x_no
       /\ companies[i].email = b_y_no
       /\ companies[i].last_seen = 1

\* ------------------------------------------------------------------------
\* Properties of the fetch action
\* ------------------------------------------------------------------------
\* the requests of the run for region m, as indices of fetchLog
GetsIn(m) == {i \in DOMAIN fetchLog : fetchLog[i].op = "get" /\ fetchLog[i].muni = m}

\* the registry's answer to the request logged at i
AnswerAt(i) == registry[<<fetchLog[i].muni, fetchLog[i].page>>]

RegionsOfRun == {municipality_numbers[k] : k \in DOMAIN municipality_numbers}

\* the signatures of the non-empty pages answered to region m in the run
SignaturesIn(m) ==
  {page_sig(AnswerAt(i).enheter) :
     i \in {j \in GetsIn(m) : ~ AnswerAt(j).failed /\ AnswerAt(j).enheter # <<>>}}

\* the number of requests after which a registry that holds only the catalogue's
\* pages must have failed, answered an empty page or repeated a page
CatalogueBound ==
  Cardinality({page_sig(r.enheter) : r \in {q \in Catalogue : q.enheter # <<>>}}) + 1

\* C4 (as stated): whatever the registry answers, and with or without a page cap, the
\* pagination of a region ends after a bounded number of requests: it is never still
\* running when it has made MaxPage requests, more than any registry with the
\* catalogue's pages can be asked before it repeats itself.
C4_PaginationEnds ==
  /\ CatalogueBound < MaxPage
  /\ fPc = "page" => (page < MaxPage \/ CapReached)

\* C4 (amended): with a page cap a region gets at most max_pages requests; in any case
\* at most one request more than the distinct non-empty page signatures answered, so
\* at most CatalogueBound requests when every answer is a failure or a catalogue page.
C4_FetchesBoundedByCapOrSignatures ==
  \A m \in RegionsOfRun :
    /\ max_pages # None => Cardinality(GetsIn(m)) <= max_pages[1]
    /\ Cardinality(GetsIn(m)) <= Cardinality(SignaturesIn(m)) + 1
    /\ (\A i \in GetsIn(m) : AnswerAt(i) \in Catalogue \cup {Failure})
         => Cardinality(GetsIn(m)) <= CatalogueBound

\* C4 witness: a run without page cap has ended after a region used up the bound: two
\* distinct catalogue pages, then a repeated page.
C4_Witness ==
  /\ fPc = "return"
  /\ max_pages = None
  /\ \E m \in RegionsOfRun :
       /\ Cardinality(GetsIn(m)) = CatalogueBound
       /\ \A i \in GetsIn(m) : AnswerAt(i) \in Catalogue /\ AnswerAt(i).enheter # <<>>

\* a table without the last_seen column
WithoutLastSeen(table) ==
  [i \in DOMAIN table |->
     [orgnr |-> table[i].orgnr, name |-> table[i].name,
      municipality |-> table[i].municipality, nace |-> table[i].nace,
      website |-> table[i].website, email |-> table[i].email, source |-> table[i].source]]

\* C5 (as stated): the upsert of a repeated run of the fetch action, against the same
\* registry answers, leaves the number of rows and every field of every row unchanged.
C5_SecondRunChangesNothing ==
  [][(uPc = "run" /\ uPc' = "ran" /\ runs >= 1) => companies' = companies]_vars

\* C5 (amended): ... leaves the number of rows and every field of every row unchanged,
\* except last_seen, which is set to the time of the repeated run.
C5_SecondRunChangesOnlyLastSeen ==
  [][(uPc = "run" /\ uPc' = "ran" /\ runs >= 1) =>
       /\ Len(companies') = Len(companies)
       /\ WithoutLastSeen(companies') = WithoutLastSeen(companies)
       /\ \A i \in DOMAIN companies :
            companies'[i].last_seen \in {companies[i].last_seen, clock'}]_vars

\* C5 witness: a repeated run has upserted a list that names company 1 twice, with and
\* without homepage, and stamped its three rows at clock 1.
C5_Witness ==
  /\ uPc = "ran"
  /\ runs = 1
  /\ clock = 1
  /\ Len(companies) = 3
  /\ \E i, j \in DOMAIN upserted :
       /\ upserted[i].orgnr = 1 /\ upserted[i].website = x_no
       /\ upserted[j].orgnr = 1 /\ upserted[j].website = NULL
  /\ \A i \in DOMAIN companies : companies[i].last_seen = 1

\* the text of an industry code starts with one of the prefixes
Matches(nace, prefixes) == \E k \in DOMAIN prefixes : StartsWith(nace, prefixes[k])

\* the requests of the run whose page was added to the result: answered with a page
\* whose signature no earlier answer to the region had
AcceptedGets ==
  {i \in DOMAIN fetchLog :
     /\ fetchLog[i].op = "get"
     /\ ~ AnswerAt(i).failed
     /\ \A j \in GetsIn(fetchLog[i].muni) :
          (j < i /\ ~ AnswerAt(j).failed)
            => page_sig(AnswerAt(j).enheter) # page_sig(AnswerAt(i).enheter)}

\* the records of the accepted pages, as <<request, position>> pairs
AcceptedRecords ==
  {<<i, k>> : i \in AcceptedGets, k \in 1..2} \cap
  {ik \in (DOMAIN fetchLog) \X (1..2) : ik[2] \in DOMAIN AnswerAt(ik[1]).enheter}

RawCode(e) == IF e.kode = NULL THEN <<>> ELSE e.kode

\* C8 (as stated): with a non-empty prefix set every Company in the result has an
\* industry code that starts with one of the prefixes; with an empty prefix set every
\* record of every accepted page is in the result.
C8_OnlyMatchingCodes ==
  /\ nace_prefixes # <<>> =>
       \A i \in DOMAIN comps : Matches(comps[i].nace, nace_prefixes)
  /\ nace_prefixes = <<>> => Len(comps) = Cardinality(AcceptedRecords)

\* C8 (amended): with a non-empty prefix set every Company in the result has an
\* industry code that is empty or starts with one of the prefixes, and the result
\* holds exactly the accepted records with such a code; with an empty prefix set every
\* record of every accepted page is in the result.
C8_MatchingOrEmptyCodes ==
  /\ nace_prefixes # <<>> =>
       /\ \A i \in DOMAIN comps :
            comps[i].nace = <<>> \/ Matches(comps[i].nace, nace_prefixes)
       /\ Len(comps) =
            Cardinality({ik \in AcceptedRecords :
                           LET code == RawCode(AnswerAt(ik[1]).enheter[ik[2]])
                           IN code = <<>> \/ Matches(code, nace_prefixes)})
  /\ nace_prefixes = <<>> => Len(comps) = Cardinality(AcceptedRecords)

\* C8 witness: fetch_from_brreg returns, under prefix 56, a result with a company of
\* code 56.1 and a company without code, the shop (code 47) of an accepted page left out.
C8_Witness ==
  /\ fPc = "return"
  /\ nace_prefixes # <<>>
  /\ \E i, j \in DOMAIN comps : comps[i].nace = <<>> /\ comps[j].nace = <<"5", "6", "1">>
  /\ \E ik \in AcceptedRecords : AnswerAt(ik[1]).enheter[ik[2]].kode = <<"4", "7">>
  /\ \A i \in DOMAIN comps : comps[i].nace # <<"4", "7">>

\* ------------------------------------------------------------------------
\* More properties of the fetch action
\* ------------------------------------------------------------------------
AllGets == {i \in DOMAIN fetchLog : fetchLog[i].op = "get"}

\* the requests answered with a page whose signature an earlier answer to the same
\* region had
RepeatedGets == {i \in AllGets : ~ AnswerAt(i).failed /\ i \notin AcceptedGets}

\* the requests after which the pagination of the region has gone on to the next page
ContinuedGets == {i \in AllGets : i < Len(fetchLog) /\ fetchLog[i + 1].op = "sleep"}

\* the result built from the pages of the requests in accepted, among the first n
\* entries of the log
RECURSIVE ResultOfAccepted(_, _)
ResultOfAccepted(accepted, n) ==
  IF n = 0 THEN <<>>
  ELSE ResultOfAccepted(accepted, n - 1)
         \o (IF n \in accepted THEN PageCompanies(AnswerAt(n).enheter, nace_prefixes)
             ELSE <<>>)

\* C12: a page with the signature of a page already seen for the same region ends the
\* pagination of that region (no later request for the region) and adds nothing to
\* the result; a page whose signature was seen only in another region is treated as
\* any new page: its records are added and the pagination goes on.
C12_RepeatedPageEndsRegion ==
  LET accepted == AcceptedGets
  IN /\ \A i \in AllGets \ accepted :
          ~ AnswerAt(i).failed =>
            /\ i \notin ContinuedGets
            /\ \A j \in GetsIn(fetchLog[i].muni) : j <= i
     /\ comps = ResultOfAccepted(accepted, Len(fetchLog))
     /\ \A i \in accepted :
          (/\ AnswerAt(i).enheter # <<>>
           /\ (AnswerAt(i).totalPages = None
                 \/ fetchLog[i].page + 1 < AnswerAt(i).totalPages[1]))
            => i \in ContinuedGets

\* the first region ended on a repeated page, and the second region was answered with
\* that very page and went on to its next page
C12_Witness ==
  /\ Len(municipality_numbers) = 2
  /\ \E i \in RepeatedGets :
       /\ fetchLog[i].muni = municipality_numbers[1]
       /\ AnswerAt(i).enheter # <<>>
       /\ \E j \in AcceptedGets \cap ContinuedGets :
            /\ fetchLog[j].muni = municipality_numbers[2]
            /\ page_sig(AnswerAt(j).enheter) = page_sig(AnswerAt(i).enheter)

\* the page of region m that the registry answered with no records and no page count,
\* all pages before it being pages of filter-matching records without a page count;
\* -1 when the registry did not answer region m in this way
EmptyPageOf(m) ==
  LET ends == {k \in 0..MaxPage :
                 /\ \A j \in 0..k : <<m, j>> \in DOMAIN registry
                 /\ registry[<<m, k>>] = Page(<<>>, None)
                 /\ \A j \in 0..(k - 1) :
                      LET r == registry[<<m, j>>]
                      IN /\ ~ r.failed
                         /\ r.enheter # <<>>
                         /\ r.totalPages = None
                         /\ \A x \in DOMAIN r.enheter :
                              /\ r.enheter[x].kode # NULL
                              /\ nace_prefixes # <<>> =>
                                   Matches(r.enheter[x].kode, nace_prefixes)}
  IN IF ends = {} THEN -1 ELSE CHOOSE k \in ends : \A l \in ends : k <= l

\* the records of the pages before the empty page of each region, as
\* <<region, page, position>> triples
ReturnedRecords ==
  {t \in RegionsOfRun \X (0..MaxPage) \X (1..2) :
     /\ t[2] < EmptyPageOf(t[1])
     /\ t[3] \in DOMAIN registry[<<t[1], t[2]>>].enheter}

IdentifierOf(t) == registry[<<t[1], t[2]>>].enheter[t[3]].organisasjonsnummer

\* the registry answered every region of the run with pages of filter-matching records
\* and then an empty page, there is no page cap, and the records returned are
\* distinct and not yet in the table
NaturalEndScenario ==
  /\ max_pages = None
  /\ \A m \in RegionsOfRun : EmptyPageOf(m) >= 0
  /\ \A t, u \in ReturnedRecords : IdentifierOf(t) = IdentifierOf(u) => t = u
  /\ \A t \in ReturnedRecords :
       \A i \in DOMAIN companies : companies[i].orgnr # IdentifierOf(t)

\* C13: when the registry returns k non-empty pages of distinct, filter-matching
\* records and then an empty page, without a page count and without a page cap, the
\* run has requested exactly the pages 0..k of the region, each once, and the upsert
\* of the fetch action creates exactly one company row per returned record.
C13_NaturalEndOfData ==
  [][(fPc = "upsert" /\ uPc = "run" /\ uPc' = "ran" /\ NaturalEndScenario) =>
       /\ \A m \in RegionsOfRun :
            /\ Cardinality(GetsIn(m)) = EmptyPageOf(m) + 1
            /\ {fetchLog[i].page : i \in GetsIn(m)} = 0..EmptyPageOf(m)
       /\ Len(companies') = Len(companies) + Cardinality(ReturnedRecords)
       /\ \A t \in ReturnedRecords :
            Cardinality({i \in DOMAIN companies' : companies'[i].orgnr = IdentifierOf(t)}) = 1
     ]_vars

\* the upsert of a run has run after a region was answered with two pages of records
\* and an empty third page: three requests, two new rows
C13_Witness ==
  /\ fPc = "upsert"
  /\ uPc = "ran"
  /\ max_pages = None
  /\ \A m \in RegionsOfRun : EmptyPageOf(m) >= 0
  /\ \E m \in RegionsOfRun :
       /\ EmptyPageOf(m) = 2
       /\ Cardinality(GetsIn(m)) = 3
  /\ Cardinality(ReturnedRecords) = 2
  /\ Len(companies) = 3
  /\ \A t \in ReturnedRecords : \E i \in DOMAIN companies : companies[i].orgnr = IdentifierOf(t)

FailedGets == {i \in AllGets : AnswerAt(i).failed}

\* fetch_from_brreg has gone through all its regions
FetchEnded == fPc \in {"return", "upsert"} \/ (fPc = "idle" /\ runs >= 1)

\* C14: a failed request ends the pagination of its region only: it is the last
\* request of that region, the records collected before it stay in the result, and
\* every region of the list is paginated from page 0, the regions after the failure
\* included.
C14_FailureEndsOneRegion ==
  LET accepted == AcceptedGets
  IN /\ \A i \in FailedGets :
          /\ i \notin ContinuedGets
          /\ \A j \in GetsIn(fetchLog[i].muni) : j <= i
          /\ LET before == ResultOfAccepted(accepted, i)
             IN /\ Len(before) <= Len(comps)
                /\ SubSeq(comps, 1, Len(before)) = before
     /\ \A k \in DOMAIN municipality_numbers :
          (FetchEnded \/ (fPc = "page" /\ (k < muniIdx \/ (k = muniIdx /\ page > 0)))) =>
            /\ GetsIn(municipality_numbers[k]) # {}
            /\ \A i \in GetsIn(municipality_numbers[k]) :
                 (\A j \in GetsIn(municipality_numbers[k]) : i <= j) => fetchLog[i].page = 0

\* a run has ended in which the first region failed on its second page: the record of
\* its first page is in the result, and the second region was paginated from page 0
\* and added records of its own
C14_Witness ==
  /\ fPc = "return"
  /\ Len(municipality_numbers) = 2
  /\ \E i \in FailedGets :
       /\ fetchLog[i].muni = municipality_numbers[1]
       /\ fetchLog[i].page = 1
       /\ ResultOfAccepted(AcceptedGets, i) # <<>>
       /\ Len(comps) > Len(ResultOfAccepted(AcceptedGets, i))
  /\ \E j \in GetsIn(municipality_numbers[2]) : fetchLog[j].page = 0

\* ------------------------------------------------------------------------
\* Properties of crawl_for_email
\* ------------------------------------------------------------------------
\* the registrable domain of the site: the last two labels of its host
SiteDomain(w) ==
  LET labels == Split(HostOf(normalize_url(w)), ".")
  IN Join(SubSeq(labels, Len(labels) - 1, Len(labels)), ".")

\* C9 (as stated): the address returned by crawl_for_email has a domain part equal to
\* the site's registrable domain or ending with "." followed by it.
C9_ResultInSiteDomain ==
  (cPc = "done" /\ result # NULL) =>
    \/ DomainPart(result) = SiteDomain(website)
    \/ EndsWith(DomainPart(result), <<".">> \o SiteDomain(website))

\* ------------------------------------------------------------------------
\* More properties of send_campaign
\* ------------------------------------------------------------------------
MarkEntries == {i \in DOMAIN sendLog : sendLog[i].op = "mark_sent"}

\* C11: a run of send_campaign with batch limit L issues at most L delivery calls and
\* writes at most L SentRecords, whatever the store holds.
C11_AtMostLimitDeliveries ==
  sPc # "idle" =>
    /\ Cardinality(SendEntries) <= limit
    /\ Cardinality(MarkEntries) <= limit

\* a run with limit 1 over a store with two companies that both have an address and no
\* SentRecord has ended after one delivery and one ledger write
C11_Witness ==
  /\ sPc = "done"
  /\ limit = 1
  /\ Cardinality(SendEntries) = 1
  /\ Cardinality(MarkEntries) = 1
  /\ Len(companies) = 2
  /\ companies[1].email # NULL
  /\ companies[2].email # NULL
  /\ Lower(companies[2].email) # Lower(companies[1].email)
  /\ Lower(companies[2].email) \notin {Lower(k) : k \in SentKeys}
  /\ unsubscribed = {}

\* the fetches of the call, as indices of crawlLog
Fetches == {i \in DOMAIN crawlLog : crawlLog[i].op = "fetch"}

\* the qualifying addresses of a page, as line 249 takes them
QualifyingIn(h) == {e \in {Lower(m) : m \in h.matches} :
                      /\ ~ \E x \in FreeMail : EndsWith(e, x)
                      /\ Qualifies(e, domain)}

\* the number of fetches up to entry i of the log
FetchNumber(i) == Cardinality({j \in Fetches : j <= i})

\* C15: the candidate paths are fetched in list order, at most MAX_PAGES_PER_SITE of
\* them; nothing is fetched after the first page with a qualifying address; after a
\* failed fetch, or a page without one, the next path is fetched; and the call returns
\* no result exactly when no visited page has a qualifying address.
C15_CrawlOrderAndEarlyStop ==
  /\ Cardinality(Fetches) <= MAX_PAGES_PER_SITE
  /\ \A i \in Fetches :
       /\ crawlLog[i].path = candidate_contact_paths[FetchNumber(i)]
       /\ QualifyingIn(crawlLog[i].html) # {} => (i = Len(crawlLog) /\ cPc # "visit")
       /\ (QualifyingIn(crawlLog[i].html) = {} /\ FetchNumber(i) < MAX_PAGES_PER_SITE) =>
            \/ \E j \in Fetches : j > i
            \/ cPc = "visit"
  /\ (cPc = "done" /\ base # NULL) =>
       /\ result = NULL <=> \A i \in Fetches : QualifyingIn(crawlLog[i].html) = {}
       /\ result = NULL => Cardinality(Fetches) = MAX_PAGES_PER_SITE
       /\ result # NULL => result \in QualifyingIn(crawlLog[Len(crawlLog)].html)

\* a call has returned an address found on the third path, after a failed fetch of the
\* first and a second page that has only a foreign address
C15_Witness ==
  /\ cPc = "done"
  /\ result # NULL
  /\ Cardinality(Fetches) = 3
  /\ \E i, j \in Fetches :
       /\ i < j
       /\ crawlLog[i].html = NoPage
       /\ crawlLog[j].html = Body({ads_adnet_com})

\* the preferred alias set, as local parts
PreferredLocalParts ==
  {<<"k", "o", "n", "t", "a", "k", "t">>,
   <<"p", "o", "s", "t">>,
   <<"i", "n", "f", "o">>,
   <<"b", "o", "o", "k", "i", "n", "g">>,
   <<"b", "e", "s", "t", "i", "l", "l", "i", "n", "g">>}

LocalPart(e) == Before(e, "@")

HasPreferredLocalPart(e) == LocalPart(e) \in PreferredLocalParts

\* e ranks before f: preferred local part first, then the shorter address
RanksBefore(e, f) ==
  \/ HasPreferredLocalPart(e) /\ ~ HasPreferredLocalPart(f)
  \/ HasPreferredLocalPart(e) = HasPreferredLocalPart(f) /\ Len(e) < Len(f)

\* C16 (as stated): the address returned from a page with several qualifying addresses
\* is top-ranked under the order "local part in the preferred alias set first, then
\* shorter first"; so when a qualifying address has a preferred local part, so has the
\* address returned.
C16_PreferredLocalPartFirst ==
  (cPc = "done" /\ result # NULL) =>
    /\ \A e \in QualifyingIn(html) : ~ RanksBefore(e, result)
    /\ (\E e \in QualifyingIn(html) : HasPreferredLocalPart(e)) => HasPreferredLocalPart(result)

\* ------------------------------------------------------------------------
\* Pacing
\* ------------------------------------------------------------------------
\* between any two calls of the kind in the log there is a sleep
Paced(log, call) ==
  \A i, j \in DOMAIN log :
    (i < j /\ log[i].op = call /\ log[j].op = call) =>
      \E k \in DOMAIN log : i < k /\ k < j /\ log[k].op = "sleep"

\* C17 (as stated): in every run, between two consecutive outbound calls of the same
\* kind (registry requests, website fetches, delivery calls) there is a RateGate wait,
\* also across a region boundary and after a failed website fetch.
C17_SleepBetweenCalls ==
  /\ Paced(fetchLog, "get")
  /\ Paced(crawlLog, "fetch")
  /\ Paced(sendLog, "send")

\* ------------------------------------------------------------------------
\* Properties of the actions run one after another
\* ------------------------------------------------------------------------
\* C18: under any sequence of fetch, enrich and send actions a company's address, once
\* not null, is never cleared or changed: every step keeps it; the enrich action
\* crawls and writes only companies whose address is null; the result of
\* fetch_from_brreg holds no address; and the steps of send_campaign leave the
\* companies table as it is.
C18_EmailNeverRegresses ==
  [][/\ Len(companies') >= Len(companies)
     /\ \A i \in DOMAIN companies :
          /\ companies'[i].orgnr = companies[i].orgnr
          /\ companies[i].email # NULL => companies'[i].email = companies[i].email
     /\ ePc' \in {"crawl", "write"} =>
          \A i \in DOMAIN companies :
            companies[i].orgnr = todo'[todoIdx'].orgnr => companies[i].email = NULL
     /\ \A i \in DOMAIN comps' : comps'[i].email = NULL
     /\ sPc # "idle" => companies' = companies
    ]_vars

\* an address written by the enrich action has been delivered to and recorded as sent,
\* and a later run of the fetch action has upserted over the table
C18_Witness ==
  /\ fPc = "upsert"
  /\ uPc = "ran"
  /\ runs = 1
  /\ comps # <<>>
  /\ \E i \in DOMAIN companies :
       /\ companies[i].orgnr = 4
       /\ companies[i].email = Lower(Info_x_no)
       /\ companies[i].email \in SentKeys
  /\ companies[1].email = a_x_no
  /\ companies[1].last_seen = clock
  /\ clock = 1

\* ------------------------------------------------------------------------
\* Properties of repeated and of terminated runs of send_campaign
\* ------------------------------------------------------------------------
\* company i has an address, no SentRecord and no UnsubscribedRecord
Eligible(i) ==
  /\ i \in DOMAIN companies
  /\ companies[i].email # NULL
  /\ \A k \in SentKeys : Lower(k) # Lower(companies[i].email)
  /\ Lower(companies[i].email) \notin unsubscribed

\* a delivery call of the run in work went to the address of company i
DeliveredTo(i) ==
  /\ i \in DOMAIN companies
  /\ companies[i].email # NULL
  /\ \E j \in SendEntries : Lower(sendLog[j].to) = Lower(companies[i].email)

\* C19 (as stated): when the send action is run again and again with one batch limit,
\* every delivery succeeding and the companies and unsubscribed tables unchanged,
\* every company with an address, no SentRecord and no UnsubscribedRecord is
\* eventually delivered to, however many unsubscribed companies the store holds.
C19_EligibleEventuallyDelivered ==
  \A i \in 1..MaxCompanies : Eligible(i) ~> DeliveredTo(i)

\* the successful delivery calls of the log
DeliveredEntries == {i \in SendEntries : sendLog[i].ok}

\* a delivery before and a delivery after the termination never go to one address
NoSecondDelivery ==
  \A i, j \in DeliveredEntries :
    (\E t \in DOMAIN sendLog : i < t /\ t < j /\ sendLog[t].op = "terminated")
      => Lower(sendLog[i].to) # Lower(sendLog[j].to)

\* C20 (as stated): at every point of a run, where the operator may terminate it, every
\* address whose delivery call has succeeded has a SentRecord; so no address is
\* successfully delivered to both in a terminated run and in the run after it.
C20_NoDeliveryInBothRuns ==
  /\ \A i \in DeliveredEntries : \E k \in SentKeys : k = Lower(sendLog[i].to)
  /\ NoSecondDelivery

====
